---- MODULE Spec2Model ----
(***************************************************************************)
(* Model of the CortarImagem image service (ImageProcessingService):      *)
(* border detection on the middle row of a decoded image, the crop        *)
(* decision, the persistence of the cropped file, and the sequential      *)
(* batch driver.                                                          *)
(*                                                                         *)
(* Strings (paths, URIs) are sequences of one-character strings, so that   *)
(* split, lastIndexOf, substring and startsWith are computed as the code   *)
(* computes them.  A decoded image is kept run-length encoded in both      *)
(* directions; PixelsAt gives the byte the code reads at pixels[index].    *)
(***************************************************************************)
EXTENDS Integers, Sequences, FiniteSets, TLC

(***************************************************************************)
(* Bounds of the model.                                                    *)
(***************************************************************************)
MaxWidth == 4

MaxHeight == 2

MaxBatch == 2

MaxNow == 1

(***************************************************************************)
(* JavaScript string primitives used by the service.                       *)
(***************************************************************************)
Min(a, b) == IF a < b THEN a ELSE b

Max(a, b) == IF a > b THEN a ELSE b

\* s.substring(start, end): both indices clamped to [0, length], swapped
\* when start > end; 0-based, end exclusive.
Substring(s, start, end) ==
    LET a == Min(Max(start, 0), Len(s))
        b == Min(Max(end, 0), Len(s))
    IN SubSeq(s, Min(a, b) + 1, Max(a, b))

\* s.substring(start)
SubstringFrom(s, start) == Substring(s, start, Len(s))

\* s.startsWith(prefix)
StartsWith(s, prefix) ==
    /\ Len(prefix) <= Len(s)
    /\ SubSeq(s, 1, Len(prefix)) = prefix

\* s.lastIndexOf(ch): 0-based index of the last occurrence, -1 when absent.
LastIndexOf(s, ch) ==
    IF \E i \in 1..Len(s) : s[i] = ch
    THEN (CHOOSE i \in 1..Len(s) :
              s[i] = ch /\ \A j \in (i + 1)..Len(s) : s[j] # ch) - 1
    ELSE -1

\* s.split(sep) for a one-character separator: the parts between the
\* separators, always at least one part.
Split(s, sep) ==
    LET at == {i \in 1..Len(s) : s[i] = sep}
        \* the position of the k-th separator; 0 and Len(s) + 1 at the ends
        pos(k) == IF k = 0 THEN 0
                  ELSE IF k > Cardinality(at) THEN Len(s) + 1
                  ELSE CHOOSE p \in at : Cardinality({q \in at : q < p}) = k - 1
    IN [k \in 1..(Cardinality(at) + 1) |-> SubSeq(s, pos(k - 1) + 1, pos(k) - 1)]

\* String(n) for a non-negative integer.
DigitChar(d) == <<"0", "1", "2", "3", "4", "5", "6", "7", "8", "9">>[d + 1]

RECURSIVE NumberToString(_)
NumberToString(n) ==
    IF n < 10 THEN <<DigitChar(n)>>
    ELSE NumberToString(n \div 10) \o <<DigitChar(n % 10)>>

(***************************************************************************)
(* Decoded images.                                                         *)
(***************************************************************************)
BLACK_THRESHOLD == 30

Pixel(r, g, b, a) == [r |-> r, g |-> g, b |-> b, a |-> a]

\* The run of a run-length encoded sequence that holds (0-based) position k.
RECURSIVE RunAt(_, _)
RunAt(runs, k) ==
    IF k < Head(runs).n THEN Head(runs) ELSE RunAt(Tail(runs), k - Head(runs).n)

\* pixels[index] of the buffer readPixels returns: 4 bytes (R, G, B, A) per
\* pixel, row-major, top to bottom.
PixelsAt(image, index) ==
    LET p  == index \div 4
        px == RunAt(RunAt(image.rows, p \div image.width).row, p % image.width).px
    IN CASE index % 4 = 0 -> px.r
         [] index % 4 = 1 -> px.g
         [] index % 4 = 2 -> px.b
         [] OTHER         -> px.a

(***************************************************************************)
(* findCropBoundsWithSkia, the part after the pixels were read.            *)
(***************************************************************************)
\* Math.floor(height / 2)
VerticalCenter(height) == height \div 2

\* IsContentAt with >= in place of >: a pixel of exactly the threshold counts
\* as content.
IsContentAt_Inclusive(image, verticalCenter, x) ==
    LET index == (verticalCenter * image.width + x) * 4
        r == PixelsAt(image, index)
        g == PixelsAt(image, index + 1)
        b == PixelsAt(image, index + 2)
    IN r >= BLACK_THRESHOLD \/ g >= BLACK_THRESHOLD \/ b >= BLACK_THRESHOLD

\* The test of both scan loops on column x of the scan row.
IsContentAt(image, verticalCenter, x) ==
    LET index == (verticalCenter * image.width + x) * 4
        r == PixelsAt(image, index)
        g == PixelsAt(image, index + 1)
        b == PixelsAt(image, index + 2)
    IN r > BLACK_THRESHOLD \/ g > BLACK_THRESHOLD \/ b > BLACK_THRESHOLD

\* LeftScan that stops one column past the first content column.
RECURSIVE LeftScan_PastContent(_, _, _)
LeftScan_PastContent(image, verticalCenter, x) ==
    IF x >= image.width THEN 0
    ELSE IF IsContentAt(image, verticalCenter, x) THEN x + 1
    ELSE LeftScan_PastContent(image, verticalCenter, x + 1)

\* for (let x = 0; x < width; x++) if content: leftBound = x; break
RECURSIVE LeftScan(_, _, _)
LeftScan(image, verticalCenter, x) ==
    IF x >= image.width THEN 0
    ELSE IF IsContentAt(image, verticalCenter, x) THEN x
    ELSE LeftScan(image, verticalCenter, x + 1)

\* RightScan with rightBound initialised to width - 1 in place of width.
RECURSIVE RightScan_FromLastColumn(_, _, _)
RightScan_FromLastColumn(image, verticalCenter, x) ==
    IF x < 0 THEN image.width - 1
    ELSE IF IsContentAt(image, verticalCenter, x) THEN x
    ELSE RightScan_FromLastColumn(image, verticalCenter, x - 1)

\* for (let x = width - 1; x >= 0; x--) if content: rightBound = x; break
RECURSIVE RightScan(_, _, _)
RightScan(image, verticalCenter, x) ==
    IF x < 0 THEN image.width
    ELSE IF IsContentAt(image, verticalCenter, x) THEN x
    ELSE RightScan(image, verticalCenter, x - 1)

FindCropBounds(image) ==
    LET verticalCenter == VerticalCenter(image.height)
        leftBound  == LeftScan(image, verticalCenter, 0)
        rightBound == RightScan(image, verticalCenter, image.width - 1)
    IN [x |-> leftBound,
        width |-> rightBound - leftBound,
        originalWidth |-> image.width,
        originalHeight |-> image.height]

(***************************************************************************)
(* ImageEditor.cropImage: the rectangle cropData of the source image.      *)
(***************************************************************************)
\* A run-length encoded sequence without its first k positions.
RECURSIVE DropRuns(_, _)
DropRuns(runs, k) ==
    IF k <= 0 \/ runs = <<>> THEN runs
    ELSE IF Head(runs).n <= k THEN DropRuns(Tail(runs), k - Head(runs).n)
    ELSE <<[Head(runs) EXCEPT !.n = @ - k]>> \o Tail(runs)

\* The first k positions of a run-length encoded sequence.
RECURSIVE TakeRuns(_, _)
TakeRuns(runs, k) ==
    IF k <= 0 \/ runs = <<>> THEN <<>>
    ELSE IF Head(runs).n <= k
         THEN <<Head(runs)>> \o TakeRuns(Tail(runs), k - Head(runs).n)
    ELSE <<[Head(runs) EXCEPT !.n = k]>>

CropPixels(image, cropData) ==
    LET kept == TakeRuns(DropRuns(image.rows, cropData.offset.y), cropData.size.height)
    IN [width  |-> cropData.size.width,
        height |-> cropData.size.height,
        rows   |-> [k \in 1..Len(kept) |->
                      [kept[k] EXCEPT !.row =
                          TakeRuns(DropRuns(@, cropData.offset.x), cropData.size.width)]]]

(***************************************************************************)
(* Files, paths and URIs.                                                  *)
(***************************************************************************)
FileScheme == <<"f", "i", "l", "e", ":", "/", "/">>

\* RNFS.CachesDirectoryPath
CachesDirectoryPath == <<"/", "c">>

\* The path the file-system primitives act on for a path or file:// URI.
FsPath(uri) == IF StartsWith(uri, FileScheme) THEN SubstringFrom(uri, 7) ELSE uri

ImageFile(image) == [kind |-> "image", image |-> image]

CorruptFile == [kind |-> "corrupt"]

\* Skia.Image.MakeImageFromEncoded: the image, or null (<<>>) for data that
\* does not decode.
MakeImageFromEncoded(content) ==
    IF content.kind = "image" THEN <<content.image>> ELSE <<>>

\* The URI of the file ImageEditor.cropImage writes: a fresh name in the cache.
CropResultUri(seq) ==
    FileScheme \o CachesDirectoryPath \o <<"/", "t">> \o NumberToString(seq)
        \o <<".", "j", "p", "g">>

\* `${RNFS.CachesDirectoryPath}/${Date.now()}.jpg`
GalleryTempPath(time) ==
    CachesDirectoryPath \o <<"/">> \o NumberToString(time) \o <<".", "j", "p", "g">>

\* The path saveImageWithCorrectedName moves the cropped file to.
CorrectedPath(originalUri) ==
    LET originalPathParts == Split(originalUri, "/")
        originalFilename  == originalPathParts[Len(originalPathParts)]
        parts             == Split(originalFilename, ".")
        name              == parts[1]
        extension         == IF Len(parts) >= 2 THEN parts[2] ELSE <<>>
        newFilename       == name \o <<"_", "c", "o", "r", "r", "i", "g", "i", "d", "o", ".">>
                                  \o (IF extension # <<>> THEN extension
                                      ELSE <<"j", "p", "g">>)
        lastSlashIndex    == LastIndexOf(originalUri, "/")
        originalDirectory == Substring(originalUri, 0, lastSlashIndex)
        cleanDirectory    == IF StartsWith(originalDirectory, FileScheme)
                             THEN SubstringFrom(originalDirectory, 7)
                             ELSE originalDirectory
    IN cleanDirectory \o <<"/">> \o newFilename

(***************************************************************************)
(* State.                                                                  *)
(*   fs       the files: path -> content                                   *)
(*   tasks    the calls made on the service, in call order; a task holds   *)
(*            the frame of processImageList (imageUris, i, processedUris), *)
(*            the frame of the processImage call it awaits, and what the   *)
(*            call did as seen from outside (alerts, crop calls, progress) *)
(*   gallery  the assets CameraRoll.save stored                            *)
(*   now      Date.now()                                                   *)
(*   cropSeq  the number of files ImageEditor.cropImage has written        *)
(*   screen   the Screen component: its React state, the native dialogs it *)
(*            has open, and the frames of its handlers that await          *)
(***************************************************************************)
VARIABLES fs, tasks, gallery, now, cropSeq, screen

vars == <<fs, tasks, gallery, now, cropSeq, screen>>

WriteFile(files, path, content) ==
    [p \in DOMAIN files \cup {path} |-> IF p = path THEN content ELSE files[p]]

RemoveFile(files, path) == [p \in DOMAIN files \ {path} |-> files[p]]

NewTask(kind, imageUris, onProgress) ==
    [kind |-> kind, pc |-> "idle", outcome |-> "pending",
     imageUris |-> imageUris, onProgress |-> onProgress,
     i |-> 0, processedUris |-> <<>>, progressLog |-> <<>>,
     imageUri |-> <<>>, bounds |-> <<>>, cropData |-> <<>>,
     croppedImageUri |-> <<>>, newPath |-> <<>>, newPathWithExtension |-> <<>>,
     result |-> <<>>, failed |-> "none",
     alerts |-> <<>>, cropLog |-> <<>>, calls |-> <<>>, events |-> <<>>]

(***************************************************************************)
(* processImage and processImageList, as continuations between awaits.     *)
(***************************************************************************)
\* processImage(uri) up to its first await (RNFS.readFile).
ProcessImageEntry(task, uri) ==
    [task EXCEPT !.pc = "readFile", !.imageUri = uri, !.bounds = <<>>,
                 !.cropData = <<>>, !.croppedImageUri = <<>>, !.newPath = <<>>,
                 !.newPathWithExtension = <<>>, !.failed = "none",
                 !.events = Append(@, [event |-> "start", item |-> task.i + 1])]

\* ProcessImageListResume that starts processImage on the next item before
\* it reports the progress of the item that completed.
ProcessImageListResume_StartsNextFirst(task, newUri) ==
    LET totalImages == Len(task.imageUris)
        progress    == [num |-> task.i + 1, den |-> totalImages]
        pushed      == [task EXCEPT !.processedUris = Append(@, newUri),
                                    !.i = @ + 1]
        next        == IF pushed.i < totalImages
                       THEN ProcessImageEntry(pushed, pushed.imageUris[pushed.i + 1])
                       ELSE [pushed EXCEPT !.pc = "done", !.outcome = "returned"]
    IN [next EXCEPT
           !.progressLog = IF task.onProgress THEN Append(@, progress) ELSE @,
           !.events = IF task.onProgress
                      THEN Append(@, [event |-> "progress", item |-> task.i + 1])
                      ELSE @]

\* ProcessImageListResume with unshift in place of push.
ProcessImageListResume_Unshift(task, newUri) ==
    LET totalImages == Len(task.imageUris)
        progress    == [num |-> task.i + 1, den |-> totalImages]
        pushed      == [task EXCEPT
                           !.processedUris = <<newUri>> \o @,
                           !.progressLog = IF task.onProgress THEN Append(@, progress)
                                           ELSE @,
                           !.events = IF task.onProgress
                                      THEN Append(@, [event |-> "progress",
                                                      item |-> task.i + 1])
                                      ELSE @,
                           !.i = @ + 1]
    IN IF pushed.i < totalImages
       THEN ProcessImageEntry(pushed, pushed.imageUris[pushed.i + 1])
       ELSE [pushed EXCEPT !.pc = "done", !.outcome = "returned"]

\* ProcessImageListResume with progress i / totalImages in place of
\* (i + 1) / totalImages.
ProcessImageListResume_ProgressFromZero(task, newUri) ==
    LET totalImages == Len(task.imageUris)
        progress    == [num |-> task.i, den |-> totalImages]
        pushed      == [task EXCEPT
                           !.processedUris = Append(@, newUri),
                           !.progressLog = IF task.onProgress THEN Append(@, progress)
                                           ELSE @,
                           !.events = IF task.onProgress
                                      THEN Append(@, [event |-> "progress",
                                                      item |-> task.i + 1])
                                      ELSE @,
                           !.i = @ + 1]
    IN IF pushed.i < totalImages
       THEN ProcessImageEntry(pushed, pushed.imageUris[pushed.i + 1])
       ELSE [pushed EXCEPT !.pc = "done", !.outcome = "returned"]

\* The loop body of processImageList after `await this.processImage(uri)`,
\* up to the next await or the return.
ProcessImageListResume(task, newUri) ==
    LET totalImages == Len(task.imageUris)
        progress    == [num |-> task.i + 1, den |-> totalImages]
        pushed      == [task EXCEPT
                           !.processedUris = Append(@, newUri),
                           !.progressLog = IF task.onProgress THEN Append(@, progress)
                                           ELSE @,
                           !.events = IF task.onProgress
                                      THEN Append(@, [event |-> "progress",
                                                      item |-> task.i + 1])
                                      ELSE @,
                           !.i = @ + 1]
    IN IF pushed.i < totalImages
       THEN ProcessImageEntry(pushed, pushed.imageUris[pushed.i + 1])
       ELSE [pushed EXCEPT !.pc = "done", !.outcome = "returned"]

\* processImage returns value to its caller.
ProcessImageReturn(task, value) ==
    LET logged == [task EXCEPT
                      !.calls = Append(@, [imageUri |-> task.imageUri,
                                           result |-> value,
                                           failed |-> task.failed]),
                      !.events = Append(@, [event |-> "end", item |-> task.i + 1])]
    IN IF task.kind = "batch" THEN ProcessImageListResume(logged, value)
       ELSE [logged EXCEPT !.pc = "done", !.outcome = "returned", !.result = value]

\* processImage without its catch block: the failure reaches the caller.
ProcessImageCatch_Rethrows(task, step) ==
    [task EXCEPT !.failed = step, !.pc = "done", !.outcome = "rejected"]

\* The catch block of processImage, entered for a failure of step.
ProcessImageCatch(task, step) ==
    ProcessImageReturn(
        [task EXCEPT !.failed = step,
                     !.alerts = Append(@, "Nao foi possivel corrigir a imagem automaticamente.")],
        task.imageUri)

\* The crop rectangle of processImage.
CropData(bounds) ==
    [offset |-> [x |-> bounds.x, y |-> 0],
     size   |-> [width |-> bounds.width, height |-> bounds.originalHeight]]

\* ProcessImageOnBounds that crops whenever the width found is below the
\* width of the image.
ProcessImageOnBounds_NoSlack(task, bounds) ==
    IF Len(bounds) = 0 THEN ProcessImageReturn(task, task.imageUri)
    ELSE LET b == bounds[1]
             found == [task EXCEPT !.bounds = bounds]
         IN IF b.width <= 0 \/ b.width >= b.originalWidth
            THEN ProcessImageReturn(found, task.imageUri)
            ELSE [found EXCEPT
                     !.cropData = <<CropData(b)>>,
                     !.cropLog = Append(@, [uri |-> task.imageUri,
                                            cropData |-> CropData(b)]),
                     !.pc = "cropImage"]

\* ProcessImageOnBounds with a slack of 1 in place of 2.
ProcessImageOnBounds_SlackOne(task, bounds) ==
    IF Len(bounds) = 0 THEN ProcessImageReturn(task, task.imageUri)
    ELSE LET b == bounds[1]
             found == [task EXCEPT !.bounds = bounds]
         IN IF b.width <= 0 \/ b.width >= b.originalWidth - 1
            THEN ProcessImageReturn(found, task.imageUri)
            ELSE [found EXCEPT
                     !.cropData = <<CropData(b)>>,
                     !.cropLog = Append(@, [uri |-> task.imageUri,
                                            cropData |-> CropData(b)]),
                     !.pc = "cropImage"]

\* processImage from the result of findCropBoundsWithSkia to the await of
\* ImageEditor.cropImage, or to its return.
ProcessImageOnBounds(task, bounds) ==
    IF Len(bounds) = 0 THEN ProcessImageReturn(task, task.imageUri)
    ELSE LET b == bounds[1]
             found == [task EXCEPT !.bounds = bounds]
         IN IF b.width <= 0 \/ b.width >= b.originalWidth - 2
            THEN ProcessImageReturn(found, task.imageUri)
            ELSE [found EXCEPT
                     !.cropData = <<CropData(b)>>,
                     !.cropLog = Append(@, [uri |-> task.imageUri,
                                            cropData |-> CropData(b)]),
                     !.pc = "cropImage"]

\* findCropBoundsWithSkia after readFile gave content: null (<<>>) when the
\* data does not decode or readPixels gives no pixels, else the bounds.
FindCropBoundsWithSkia(content, pixelsRead) ==
    LET image == MakeImageFromEncoded(content)
    IN IF Len(image) = 0 THEN <<>>
       ELSE IF ~pixelsRead THEN <<>>
       ELSE <<FindCropBounds(image[1])>>

AfterReadFile(task, content, pixelsRead) ==
    LET image  == MakeImageFromEncoded(content)
        failed == IF Len(image) = 0 THEN "decode"
                  ELSE IF ~pixelsRead THEN "readPixels" ELSE "none"
    IN ProcessImageOnBounds([task EXCEPT !.failed = failed],
                            FindCropBoundsWithSkia(content, pixelsRead))

\* saveImageWithCorrectedName up to its await of RNFS.moveFile.
SaveImageWithCorrectedNameEntry(task, tempUri) ==
    [task EXCEPT !.croppedImageUri = tempUri,
                 !.newPath = CorrectedPath(task.imageUri),
                 !.pc = "moveFile"]

\* saveImageToGallery up to its await of RNFS.copyFile.
SaveImageToGalleryEntry(task, time) ==
    [task EXCEPT !.newPathWithExtension = GalleryTempPath(time), !.pc = "copyFile"]

\* saveImageWithCorrectedName after saveImageToGallery returned (its result
\* is not used), and processImage after that.
SaveImageWithCorrectedNameReturn(task) ==
    ProcessImageReturn(task, FileScheme \o task.newPath)

\* saveImageToGallery without its try/catch: the failure reaches the catch
\* block of processImage.
SaveImageToGalleryCatch_Rethrows(task, step) ==
    ProcessImageCatch(task, step)

\* The catch block of saveImageToGallery, entered for a failure of step.
SaveImageToGalleryCatch(task, step) ==
    SaveImageWithCorrectedNameReturn(
        [task EXCEPT !.failed = step,
                     !.alerts = Append(@, "Nao foi possivel salvar a imagem na galeria.")])

(***************************************************************************)
(* Actions: the calls on the service, and the settlement (resolve or       *)
(* reject) of each awaited operation with the code that runs after it up   *)
(* to the next await.                                                      *)
(***************************************************************************)
\* The URI CameraRoll.save resolves with for the n-th asset of the gallery.
GalleryUri(n) == <<"p", "h", ":", "/", "/">> \o NumberToString(n)

\* processImage(imageUri), called directly.
CallProcessImage(imageUri) ==
    /\ tasks = <<>>
    /\ tasks' = <<ProcessImageEntry(NewTask("single", <<>>, FALSE), imageUri)>>
    /\ UNCHANGED <<fs, gallery, now, cropSeq>>

\* processImageList(imageUris, onProgress?) up to its first await, or to
\* its return for an empty list.
ProcessImageListEntry(imageUris, onProgress) ==
    IF Len(imageUris) > 0
    THEN ProcessImageEntry(NewTask("batch", imageUris, onProgress), imageUris[1])
    ELSE [NewTask("batch", imageUris, onProgress) EXCEPT
             !.pc = "done", !.outcome = "returned"]

\* processImageList(imageUris, onProgress?)
CallProcessImageList(imageUris, onProgress) ==
    /\ tasks = <<>>
    /\ tasks' = <<ProcessImageListEntry(imageUris, onProgress)>>
    /\ UNCHANGED <<fs, gallery, now, cropSeq>>

ReadFileResolve(t) ==
    /\ tasks[t].pc = "readFile"
    /\ FsPath(tasks[t].imageUri) \in DOMAIN fs
    /\ \E pixelsRead \in BOOLEAN :
          tasks' = [tasks EXCEPT ![t] =
                       AfterReadFile(@, fs[FsPath(@.imageUri)], pixelsRead)]
    /\ UNCHANGED <<fs, gallery, now, cropSeq>>

ReadFileReject(t) ==
    /\ tasks[t].pc = "readFile"
    /\ tasks' = [tasks EXCEPT ![t] = ProcessImageCatch(@, "readFile")]
    /\ UNCHANGED <<fs, gallery, now, cropSeq>>

CropImageResolve(t) ==
    /\ tasks[t].pc = "cropImage"
    /\ FsPath(tasks[t].imageUri) \in DOMAIN fs
    /\ fs[FsPath(tasks[t].imageUri)].kind = "image"
    /\ LET uri     == CropResultUri(cropSeq)
           source  == fs[FsPath(tasks[t].imageUri)].image
           cropped == CropPixels(source, tasks[t].cropData[1])
       IN /\ fs' = WriteFile(fs, FsPath(uri), ImageFile(cropped))
          /\ tasks' = [tasks EXCEPT ![t] = SaveImageWithCorrectedNameEntry(@, uri)]
    /\ cropSeq' = cropSeq + 1
    /\ UNCHANGED <<gallery, now>>

CropImageReject(t) ==
    /\ tasks[t].pc = "cropImage"
    /\ tasks' = [tasks EXCEPT ![t] = ProcessImageCatch(@, "cropImage")]
    /\ UNCHANGED <<fs, gallery, now, cropSeq>>

MoveFileResolve(t) ==
    /\ tasks[t].pc = "moveFile"
    /\ FsPath(tasks[t].croppedImageUri) \in DOMAIN fs
    /\ LET from == FsPath(tasks[t].croppedImageUri)
       IN fs' = RemoveFile(WriteFile(fs, tasks[t].newPath, fs[from]), from)
    /\ \E time \in now..MaxNow :
          /\ now' = time
          /\ tasks' = [tasks EXCEPT ![t] = SaveImageToGalleryEntry(@, time)]
    /\ UNCHANGED <<gallery, cropSeq>>

MoveFileReject(t) ==
    /\ tasks[t].pc = "moveFile"
    /\ tasks' = [tasks EXCEPT ![t] = ProcessImageCatch(@, "moveFile")]
    /\ UNCHANGED <<fs, gallery, now, cropSeq>>

CopyFileResolve(t) ==
    /\ tasks[t].pc = "copyFile"
    /\ tasks[t].newPath \in DOMAIN fs
    /\ fs' = WriteFile(fs, tasks[t].newPathWithExtension, fs[tasks[t].newPath])
    /\ tasks' = [tasks EXCEPT ![t].pc = "cameraRollSave"]
    /\ UNCHANGED <<gallery, now, cropSeq>>

CopyFileReject(t) ==
    /\ tasks[t].pc = "copyFile"
    /\ tasks' = [tasks EXCEPT ![t] = SaveImageToGalleryCatch(@, "copyFile")]
    /\ UNCHANGED <<fs, gallery, now, cropSeq>>

CameraRollSaveResolve(t) ==
    /\ tasks[t].pc = "cameraRollSave"
    /\ tasks[t].newPathWithExtension \in DOMAIN fs
    /\ gallery' = Append(gallery, [album |-> "CortarImagem",
                                   uri |-> FileScheme \o tasks[t].newPathWithExtension,
                                   galleryUri |-> GalleryUri(Len(gallery) + 1)])
    /\ tasks' = [tasks EXCEPT ![t].pc = "unlink"]
    /\ UNCHANGED <<fs, now, cropSeq>>

CameraRollSaveReject(t) ==
    /\ tasks[t].pc = "cameraRollSave"
    /\ tasks' = [tasks EXCEPT ![t] = SaveImageToGalleryCatch(@, "cameraRollSave")]
    /\ UNCHANGED <<fs, gallery, now, cropSeq>>

UnlinkResolve(t) ==
    /\ tasks[t].pc = "unlink"
    /\ tasks[t].newPathWithExtension \in DOMAIN fs
    /\ fs' = RemoveFile(fs, tasks[t].newPathWithExtension)
    /\ tasks' = [tasks EXCEPT ![t] = SaveImageWithCorrectedNameReturn(@)]
    /\ UNCHANGED <<gallery, now, cropSeq>>

UnlinkReject(t) ==
    /\ tasks[t].pc = "unlink"
    /\ tasks' = [tasks EXCEPT ![t] = SaveImageToGalleryCatch(@, "unlink")]
    /\ UNCHANGED <<fs, gallery, now, cropSeq>>

(***************************************************************************)
(* Inputs.                                                                 *)
(***************************************************************************)
Black == Pixel(0, 0, 0, 255)

Dim == Pixel(30, 30, 30, 255)

Green == Pixel(0, 31, 0, 255)

Blue == Pixel(0, 0, 200, 0)

Gray128 == Pixel(128, 128, 128, 255)

Gray100 == Pixel(100, 100, 100, 255)

Palette == {Black, Dim, Green, Blue}

OtherRowPalette == {Black, Blue}

\* A row of width w given pixel by pixel.
RowOf(pixelAt, w) == [x \in 1..w |-> [n |-> 1, px |-> pixelAt[x]]]

\* The image of width w and height h whose row `detailed` (1-based) has the
\* pixels pixelAt and whose every other row y is uniformly other[y].
SmallImage(w, h, detailed, pixelAt, other) ==
    [width |-> w, height |-> h,
     rows |-> [y \in 1..h |->
                  [n |-> 1,
                   row |-> IF y = detailed THEN RowOf(pixelAt, w)
                           ELSE <<[n |-> w, px |-> other[y]]>>]]]

\* 1000x600: columns 0-49 and 950-999 pure black, the rest mid-gray.
BandedImage ==
    [width |-> 1000, height |-> 600,
     rows |-> <<[n |-> 600,
                 row |-> <<[n |-> 50, px |-> Black], [n |-> 900, px |-> Gray128],
                           [n |-> 50, px |-> Black]>>]>>]

\* 500x500, value 100 everywhere.
UniformGrayImage ==
    [width |-> 500, height |-> 500,
     rows |-> <<[n |-> 500, row |-> <<[n |-> 500, px |-> Gray100]>>]>>]

UriA == FileScheme \o <<"/", "d", "/", "a", ".", "j", "p", "g">>

UriB == <<"/", "d", "/", "b">>

UriC == <<"/", "d", "/", "c", ".", "v", "2", ".", "p", "n", "g">>

SourceUris == {UriA, UriB, UriC}

ScenarioContents == {ImageFile(BandedImage), ImageFile(UniformGrayImage), CorruptFile}

(***************************************************************************)
(* Spec: one call of processImage on one file of any content.              *)
(***************************************************************************)
\* The Screen component as mounted: the initial values of its useState
\* hooks, no picker or dialog open, no handler running.
NewScreen ==
    [selectedImages |-> <<>>, isAdjustingImages |-> FALSE,
     progress |-> [num |-> 0, den |-> 1],
     picker |-> "closed", picks |-> 0,
     cropper |-> <<>>, edits |-> 0,
     dialogs |-> <<>>, handlers |-> <<>>, alerts |-> <<>>]

Init ==
    /\ \E uri \in SourceUris :
          \/ \E content \in ScenarioContents : fs = (FsPath(uri) :> content)
          \/ \E w \in 1..MaxWidth, h \in 1..MaxHeight :
                \E detailed \in 1..h, pixelAt \in [1..w -> Palette] :
                   \E other \in [(1..h) \ {detailed} -> OtherRowPalette] :
                      fs = (FsPath(uri) :>
                               ImageFile(SmallImage(w, h, detailed, pixelAt, other)))
    /\ tasks = <<>>
    /\ gallery = <<>>
    /\ now = 0
    /\ cropSeq = 0
    /\ screen = NewScreen

Next ==
    \/ (\E imageUri \in SourceUris : CallProcessImage(imageUri)) /\ UNCHANGED screen
    \/ (\E t \in DOMAIN tasks : ReadFileResolve(t)) /\ UNCHANGED screen
    \/ (\E t \in DOMAIN tasks : ReadFileReject(t)) /\ UNCHANGED screen
    \/ (\E t \in DOMAIN tasks : CropImageResolve(t)) /\ UNCHANGED screen
    \/ (\E t \in DOMAIN tasks : CropImageReject(t)) /\ UNCHANGED screen
    \/ (\E t \in DOMAIN tasks : MoveFileResolve(t)) /\ UNCHANGED screen
    \/ (\E t \in DOMAIN tasks : MoveFileReject(t)) /\ UNCHANGED screen
    \/ (\E t \in DOMAIN tasks : CopyFileResolve(t)) /\ UNCHANGED screen
    \/ (\E t \in DOMAIN tasks : CopyFileReject(t)) /\ UNCHANGED screen
    \/ (\E t \in DOMAIN tasks : CameraRollSaveResolve(t)) /\ UNCHANGED screen
    \/ (\E t \in DOMAIN tasks : CameraRollSaveReject(t)) /\ UNCHANGED screen
    \/ (\E t \in DOMAIN tasks : UnlinkResolve(t)) /\ UNCHANGED screen
    \/ (\E t \in DOMAIN tasks : UnlinkReject(t)) /\ UNCHANGED screen

Spec == Init /\ [][Next]_vars

(***************************************************************************)
(* SpecBatch: one call of processImageList on a list of up to MaxBatch of  *)
(* the source files; FairSpecBatch: such a call where every awaited        *)
(* operation settles (resolves or rejects).                                *)
(***************************************************************************)
\* 6x1: two black columns, three green, one black.
CroppableImage ==
    [width |-> 6, height |-> 1,
     rows |-> <<[n |-> 1,
                 row |-> <<[n |-> 2, px |-> Black], [n |-> 3, px |-> Green],
                           [n |-> 1, px |-> Black]>>]>>]

\* 3x2, green everywhere.
BorderlessImage ==
    [width |-> 3, height |-> 2,
     rows |-> <<[n |-> 2, row |-> <<[n |-> 3, px |-> Green]>>]>>]

BatchContents == {ImageFile(CroppableImage), ImageFile(BorderlessImage), CorruptFile}

UriLists == UNION { [1..n -> SourceUris] : n \in 0..MaxBatch }

InitBatch ==
    /\ \E contentOf \in [SourceUris -> BatchContents] :
          fs = [path \in {FsPath(uri) : uri \in SourceUris} |->
                   contentOf[CHOOSE uri \in SourceUris : FsPath(uri) = path]]
    /\ tasks = <<>>
    /\ gallery = <<>>
    /\ now = 0
    /\ cropSeq = 0
    /\ screen = NewScreen

NextBatch ==
    \/ /\ \E imageUris \in UriLists, onProgress \in BOOLEAN :
             CallProcessImageList(imageUris, onProgress)
       /\ UNCHANGED screen
    \/ (\E t \in DOMAIN tasks : ReadFileResolve(t)) /\ UNCHANGED screen
    \/ (\E t \in DOMAIN tasks : ReadFileReject(t)) /\ UNCHANGED screen
    \/ (\E t \in DOMAIN tasks : CropImageResolve(t)) /\ UNCHANGED screen
    \/ (\E t \in DOMAIN tasks : CropImageReject(t)) /\ UNCHANGED screen
    \/ (\E t \in DOMAIN tasks : MoveFileResolve(t)) /\ UNCHANGED screen
    \/ (\E t \in DOMAIN tasks : MoveFileReject(t)) /\ UNCHANGED screen
    \/ (\E t \in DOMAIN tasks : CopyFileResolve(t)) /\ UNCHANGED screen
    \/ (\E t \in DOMAIN tasks : CopyFileReject(t)) /\ UNCHANGED screen
    \/ (\E t \in DOMAIN tasks : CameraRollSaveResolve(t)) /\ UNCHANGED screen
    \/ (\E t \in DOMAIN tasks : CameraRollSaveReject(t)) /\ UNCHANGED screen
    \/ (\E t \in DOMAIN tasks : UnlinkResolve(t)) /\ UNCHANGED screen
    \/ (\E t \in DOMAIN tasks : UnlinkReject(t)) /\ UNCHANGED screen

SpecBatch == InitBatch /\ [][NextBatch]_vars

\* Some awaited operation of some call settles.
Settle ==
    /\ UNCHANGED screen
    /\ \E t \in DOMAIN tasks :
           \/ ReadFileResolve(t) \/ ReadFileReject(t)
           \/ CropImageResolve(t) \/ CropImageReject(t)
           \/ MoveFileResolve(t) \/ MoveFileReject(t)
           \/ CopyFileResolve(t) \/ CopyFileReject(t)
           \/ CameraRollSaveResolve(t) \/ CameraRollSaveReject(t)
           \/ UnlinkResolve(t) \/ UnlinkReject(t)

\* The batch on one file of each kind: one that is cropped, one without
\* border, one that does not decode.
InitOneOfEach ==
    /\ fs = [path \in {FsPath(uri) : uri \in SourceUris} |->
                CASE path = FsPath(UriA) -> ImageFile(CroppableImage)
                  [] path = FsPath(UriB) -> ImageFile(BorderlessImage)
                  [] OTHER               -> CorruptFile]
    /\ tasks = <<>>
    /\ gallery = <<>>
    /\ now = 0
    /\ cropSeq = 0
    /\ screen = NewScreen

FairSpecBatch == InitOneOfEach /\ [][NextBatch]_vars /\ WF_vars(Settle)

(***************************************************************************)
(* What the claims speak of, read off the image itself.                    *)
(***************************************************************************)
\* The pixel of column x, row y (both 0-based).
PixelOf(image, x, y) == RunAt(RunAt(image.rows, y).row, x).px

\* The columns of the row floor(height / 2) whose pixel has a channel of
\* R, G, B above 30.
ContentColumns(image) ==
    { x \in 0..(image.width - 1) :
        LET px == PixelOf(image, x, image.height \div 2)
        IN px.r > 30 \/ px.g > 30 \/ px.b > 30 }

SetMin(S) == CHOOSE x \in S : \A y \in S : x <= y

SetMax(S) == CHOOSE x \in S : \A y \in S : x >= y

\* The widths of the near-black bands at the left and at the right of the
\* scan row of an image that has a content column.
LeftBand(image) == SetMin(ContentColumns(image))

RightBand(image) == image.width - 1 - SetMax(ContentColumns(image))

Abs(n) == IF n < 0 THEN -n ELSE n

\* The task's source file holds an image.
HasSourceImage(task) ==
    /\ task.imageUri # <<>>
    /\ FsPath(task.imageUri) \in DOMAIN fs
    /\ fs[FsPath(task.imageUri)].kind = "image"

SourceImage(task) == fs[FsPath(task.imageUri)].image

\* A direct call of processImage that has returned or thrown.
Finished(task) == task.kind = "single" /\ task.pc = "done"

ReadOrDecodeSteps == {"readFile", "decode", "readPixels"}

GallerySteps == {"copyFile", "cameraRollSave", "unlink"}

(***************************************************************************)
(* C1.                                                                     *)
(***************************************************************************)
\* C1, as stated: whichever single step of processImage fails (read or
\* decode, crop, file move, gallery save), processImage returns to its
\* caller, does not throw, and its result is the original input path.
C1_AsStated ==
    \A t \in DOMAIN tasks :
        (Finished(tasks[t]) /\ tasks[t].failed # "none")
            => /\ tasks[t].outcome = "returned"
               /\ tasks[t].result = tasks[t].imageUri

\* C1, amended: no failure of a single step makes processImage throw; a
\* failure of the read, the decode, the crop or the file move makes the
\* result the original input path; a failure of the gallery save (copy to
\* the cache, CameraRoll.save, unlink) makes the result the file:// URI of
\* the corrected file, which differs from the input path.
C1_FailureAbsorbed ==
    \A t \in DOMAIN tasks :
        (Finished(tasks[t]) /\ tasks[t].failed # "none")
            => /\ tasks[t].outcome = "returned"
               /\ tasks[t].failed \in ReadOrDecodeSteps \cup {"cropImage", "moveFile"}
                     => tasks[t].result = tasks[t].imageUri
               /\ tasks[t].failed \in GallerySteps
                     => /\ tasks[t].result = FileScheme \o tasks[t].newPath
                        /\ tasks[t].result # tasks[t].imageUri

C1_Witness ==
    \E t \in DOMAIN tasks :
        /\ Finished(tasks[t])
        /\ tasks[t].failed = "cameraRollSave"
        /\ tasks[t].outcome = "returned"
        /\ tasks[t].result # tasks[t].imageUri

(***************************************************************************)
(* C2.                                                                     *)
(***************************************************************************)
\* The condition under which the claim says no crop is made.
Rejected(bounds) ==
    \/ Len(bounds) = 0
    \/ bounds[1].width <= 0
    \/ bounds[1].width >= bounds[1].originalWidth - 2

\* C2: processImage returns the original path without calling the crop
\* operation exactly when the bounds are absent, or width <= 0, or
\* width >= originalWidth - 2; in every other case it has called the crop
\* operation exactly once, with offset (left, 0) and size
\* (width, originalHeight).
C2_CropExactlyWhenWarranted ==
    \A t \in DOMAIN tasks :
        /\ Len(tasks[t].cropLog) <= 1
        /\ Finished(tasks[t]) =>
              IF Rejected(tasks[t].bounds)
              THEN tasks[t].cropLog = <<>> /\ tasks[t].result = tasks[t].imageUri
              ELSE LET b == tasks[t].bounds[1]
                   IN tasks[t].cropLog =
                         <<[uri |-> tasks[t].imageUri,
                            cropData |-> [offset |-> [x |-> b.x, y |-> 0],
                                          size |-> [width |-> b.width,
                                                    height |-> b.originalHeight]]]>>

C2_Witness ==
    \E t \in DOMAIN tasks :
        /\ Finished(tasks[t])
        /\ ~Rejected(tasks[t].bounds)
        /\ Len(tasks[t].cropLog) = 1
        /\ tasks[t].cropLog[1].cropData.offset.x > 0

(***************************************************************************)
(* C3 to C6 and C10: detection on the scan row, and the crop decision.     *)
(***************************************************************************)
\* The task has run detection on the image of its source file.
Detected(task) == HasSourceImage(task) /\ Len(task.bounds) = 1

\* C3: when the scan row has a near-black band of width b on the left and
\* of width c on the right, b + c < W, and content in between, the detected
\* left is b and the detected width is W - b - c, each within 1 pixel.
C3_BandsWithinOnePixel ==
    \A t \in DOMAIN tasks :
        (Detected(tasks[t]) /\ ContentColumns(SourceImage(tasks[t])) # {})
            => LET image == SourceImage(tasks[t])
                   b == LeftBand(image)
                   c == RightBand(image)
               IN /\ Abs(tasks[t].bounds[1].x - b) <= 1
                  /\ Abs(tasks[t].bounds[1].width - (image.width - b - c)) <= 1

C3_Witness ==
    \E t \in DOMAIN tasks :
        /\ Detected(tasks[t])
        /\ ContentColumns(SourceImage(tasks[t])) # {}
        /\ LeftBand(SourceImage(tasks[t])) = 2
        /\ RightBand(SourceImage(tasks[t])) = 1
        /\ tasks[t].bounds[1].x = 2

\* C4, as stated: for the 1000x600 image with columns 0-49 and 950-999
\* black and the rest mid-gray, detection returns left = 50 and width = 900,
\* and the crop is made with a rectangle 900 wide and 600 high.
C4_AsStated ==
    \A t \in DOMAIN tasks :
        (Detected(tasks[t]) /\ SourceImage(tasks[t]) = BandedImage)
            => /\ tasks[t].bounds[1].x = 50
               /\ tasks[t].bounds[1].width = 900
               /\ Len(tasks[t].cropLog) = 1
               /\ tasks[t].cropLog[1].cropData.size = [width |-> 900, height |-> 600]

\* C5, as stated: when the scan row has content at column 0 and at column
\* W - 1, detection returns left = 0 and width = W, and processImage returns
\* the original path without calling the crop operation.
C5_AsStated ==
    \A t \in DOMAIN tasks :
        (Detected(tasks[t])
            /\ {0, SourceImage(tasks[t]).width - 1} \subseteq ContentColumns(SourceImage(tasks[t])))
            => /\ tasks[t].bounds[1].x = 0
               /\ tasks[t].bounds[1].width = SourceImage(tasks[t]).width
               /\ tasks[t].cropLog = <<>>
               /\ Finished(tasks[t]) => tasks[t].result = tasks[t].imageUri

\* C6: when no pixel of the scan row has a channel above the threshold, the
\* detected left is 0 and the detected width is the image's width, the crop
\* operation is not called and processImage returns the original path.
C6_AllBorderRowIsNoOp ==
    \A t \in DOMAIN tasks :
        (HasSourceImage(tasks[t]) /\ ContentColumns(SourceImage(tasks[t])) = {})
            => /\ tasks[t].cropLog = <<>>
               /\ Len(tasks[t].bounds) = 1 =>
                     /\ tasks[t].bounds[1].x = 0
                     /\ tasks[t].bounds[1].width = SourceImage(tasks[t]).width
               /\ Finished(tasks[t]) =>
                     /\ tasks[t].outcome = "returned"
                     /\ tasks[t].result = tasks[t].imageUri

C6_Witness ==
    \E t \in DOMAIN tasks :
        /\ Detected(tasks[t])
        /\ ContentColumns(SourceImage(tasks[t])) = {}
        /\ SourceImage(tasks[t]).width = 3
        /\ Finished(tasks[t])
        /\ tasks[t].failed = "none"
        /\ tasks[t].result = tasks[t].imageUri

\* C10, as stated: an image whose near-black bands in the scan row are at
\* most 1 pixel wide on each side is never cropped: the crop operation is
\* not called and processImage returns the original path.
C10_AsStated ==
    \A t \in DOMAIN tasks :
        (HasSourceImage(tasks[t])
            /\ ContentColumns(SourceImage(tasks[t])) # {}
            /\ LeftBand(SourceImage(tasks[t])) <= 1
            /\ RightBand(SourceImage(tasks[t])) <= 1)
            => /\ tasks[t].cropLog = <<>>
               /\ Finished(tasks[t]) => tasks[t].result = tasks[t].imageUri

(***************************************************************************)
(* C7 to C9: the batch driver.                                             *)
(***************************************************************************)
\* A call of processImageList that has returned.
BatchReturned(task) ==
    task.kind = "batch" /\ task.pc = "done" /\ task.outcome = "returned"

\* C7: the list processImageList returns has the length of the input list,
\* and its entry i is what the call of processImage on input entry i
\* returned, also when some of the calls failed and fell back.
C7_OutputFollowsInput ==
    \A t \in DOMAIN tasks :
        tasks[t].kind = "batch"
            => /\ Len(tasks[t].processedUris) = Len(tasks[t].calls)
               /\ \A k \in 1..Len(tasks[t].calls) :
                     /\ tasks[t].calls[k].imageUri = tasks[t].imageUris[k]
                     /\ tasks[t].processedUris[k] = tasks[t].calls[k].result
               /\ tasks[t].pc = "done"
                     => /\ tasks[t].outcome = "returned"
                        /\ Len(tasks[t].processedUris) = Len(tasks[t].imageUris)

C7_Witness ==
    \E t \in DOMAIN tasks :
        /\ BatchReturned(tasks[t])
        /\ Len(tasks[t].imageUris) = 2
        /\ tasks[t].calls[1].failed = "cropImage"
        /\ tasks[t].processedUris[1] = tasks[t].imageUris[1]
        /\ tasks[t].calls[2].failed = "none"
        /\ tasks[t].processedUris[2] # tasks[t].imageUris[2]

\* a/b <= c/d for fractions with positive denominators.
FractionLeq(p, q) == p.num * q.den <= q.num * p.den

\* C8: with a progress callback, it is called once after each item
\* completes, with the values 1/N, 2/N, ..., N/N in this order (so each is
\* in [0, 1] and none is less than the one before), N times when the batch
\* returns; without a callback nothing is reported; for an empty list the
\* result is the empty list and the callback is never called.
C8_ProgressSequence ==
    \A t \in DOMAIN tasks :
        tasks[t].kind = "batch"
            => LET N == Len(tasks[t].imageUris)
                   log == tasks[t].progressLog
               IN /\ tasks[t].onProgress
                        => /\ Len(log) = Len(tasks[t].calls)
                           /\ \A k \in 1..Len(log) : log[k] = [num |-> k, den |-> N]
                           /\ \A k \in 1..Len(log) :
                                 /\ FractionLeq([num |-> 0, den |-> 1], log[k])
                                 /\ FractionLeq(log[k], [num |-> 1, den |-> 1])
                                 /\ k > 1 => FractionLeq(log[k - 1], log[k])
                  /\ ~tasks[t].onProgress => log = <<>>
                  /\ tasks[t].pc = "done" /\ tasks[t].onProgress => Len(log) = N
                  /\ N = 0 => /\ tasks[t].pc = "done"
                              /\ tasks[t].outcome = "returned"
                              /\ tasks[t].processedUris = <<>>
                              /\ log = <<>>

C8_Witness ==
    \E t \in DOMAIN tasks :
        /\ BatchReturned(tasks[t])
        /\ tasks[t].onProgress
        /\ Len(tasks[t].imageUris) = 2
        /\ tasks[t].calls[1].failed = "moveFile"
        /\ tasks[t].progressLog = <<[num |-> 1, den |-> 2], [num |-> 2, den |-> 2]>>

\* The entry is the input path or the URI of a file that exists.
ValidOutput(task, k) ==
    \/ task.processedUris[k] = task.imageUris[k]
    \/ /\ FsPath(task.processedUris[k]) \in DOMAIN fs
       /\ fs[FsPath(task.processedUris[k])].kind = "image"

\* Every item of the batch was processed and the batch returned a valid
\* path for each.
BatchCompleted(task) ==
    /\ BatchReturned(task)
    /\ Len(task.calls) = Len(task.imageUris)
    /\ Len(task.processedUris) = Len(task.imageUris)
    /\ \A k \in 1..Len(task.imageUris) :
          /\ task.calls[k].imageUri = task.imageUris[k]
          /\ ValidOutput(task, k)

\* C9: a batch that was started runs to completion whatever fails: it
\* eventually returns, with every item processed and a valid path (the
\* original, or the path of a file written) for every item.
C9_BatchRunsToCompletion ==
    (tasks # <<>>) ~> (\A t \in DOMAIN tasks : BatchCompleted(tasks[t]))

C9_Witness ==
    \E t \in DOMAIN tasks :
        /\ BatchCompleted(tasks[t])
        /\ Len(tasks[t].imageUris) = 2
        /\ tasks[t].calls[1].failed = "readFile"
        /\ tasks[t].calls[2].failed = "none"
        /\ tasks[t].processedUris[2] # tasks[t].imageUris[2]

(***************************************************************************)
(* C11.                                                                    *)
(***************************************************************************)
\* C11: every bounds value that detection returns has left >= 0,
\* width >= 0 and left + width <= originalWidth, where originalWidth and
\* originalHeight are the dimensions of the decoded image; the left bound
\* never exceeds the right bound, so no negative width is produced.
C11_BoundsWithinImage ==
    \A t \in DOMAIN tasks :
        Detected(tasks[t]) =>
            LET b == tasks[t].bounds[1]
            IN /\ b.x >= 0
               /\ b.width >= 0
               /\ b.x + b.width <= b.originalWidth
               /\ b.originalWidth = SourceImage(tasks[t]).width
               /\ b.originalHeight = SourceImage(tasks[t]).height

\* Detection on a scan row with one content column: left and right bound
\* coincide and the width is 0.
C11_Witness ==
    \E t \in DOMAIN tasks :
        /\ Detected(tasks[t])
        /\ Cardinality(ContentColumns(SourceImage(tasks[t]))) = 1
        /\ tasks[t].bounds[1].x > 0
        /\ tasks[t].bounds[1].width = 0

(***************************************************************************)
(* C12.                                                                    *)
(***************************************************************************)
\* C12: when the crop and the move succeeded and only the gallery save
\* failed (the copy to the cache, CameraRoll.save or the unlink), the
\* result of processImage is the path of the cropped image, which is
\* neither the original path nor a gallery URI, and the file at that path
\* holds the cropped rectangle of the source image.
C12_GalleryFailureKeepsCroppedFile ==
    \A t \in DOMAIN tasks :
        (Finished(tasks[t]) /\ tasks[t].failed \in GallerySteps)
            => /\ tasks[t].outcome = "returned"
               /\ tasks[t].result # tasks[t].imageUri
               /\ \A g \in DOMAIN gallery : tasks[t].result # gallery[g].galleryUri
               /\ Len(tasks[t].cropLog) = 1
               /\ FsPath(tasks[t].result) \in DOMAIN fs
               /\ fs[FsPath(tasks[t].result)] =
                     ImageFile(CropPixels(SourceImage(tasks[t]),
                                          tasks[t].cropLog[1].cropData))

\* The unlink failed after CameraRoll.save had resolved with a gallery URI.
C12_Witness ==
    \E t \in DOMAIN tasks :
        /\ Finished(tasks[t])
        /\ tasks[t].failed = "unlink"
        /\ Len(gallery) = 1
        /\ FsPath(tasks[t].result) \in DOMAIN fs
        /\ tasks[t].result # gallery[1].galleryUri

(***************************************************************************)
(* C13.                                                                    *)
(***************************************************************************)
\* The output path the claim describes for a source path: the directory of
\* the source, then the source file name with "_corrigido" inserted
\* immediately before its last extension; a name without extension gets
\* the suffix and the extension "jpg".
SuffixedPath(uri) ==
    LET path      == FsPath(uri)
        lastSlash == LastIndexOf(path, "/")
        directory == Substring(path, 0, lastSlash)
        filename  == SubstringFrom(path, lastSlash + 1)
        lastDot   == LastIndexOf(filename, ".")
        suffix    == <<"_", "c", "o", "r", "r", "i", "g", "i", "d", "o">>
    IN directory \o <<"/">> \o
          (IF lastDot < 0
           THEN filename \o suffix \o <<".", "j", "p", "g">>
           ELSE Substring(filename, 0, lastDot) \o suffix
                   \o SubstringFrom(filename, lastDot))

\* C13, as stated: the path the corrected image is saved at is in the
\* directory of the source image, and its file name is the source file
\* name with the fixed suffix inserted immediately before the last
\* extension and the rest of the name unchanged (default extension when
\* the source has none).
C13_AsStated ==
    \A t \in DOMAIN tasks :
        tasks[t].newPath # <<>> => tasks[t].newPath = SuffixedPath(tasks[t].imageUri)

(***************************************************************************)
(* C17.                                                                    *)
(***************************************************************************)
\* C17, as stated: once processImage has finished, on any path including a
\* failed gallery save, the temporary copy that saveImageToGallery made in
\* the cache directory is no longer there.
C17_AsStated ==
    \A t \in DOMAIN tasks :
        (Finished(tasks[t]) /\ tasks[t].newPathWithExtension # <<>>)
            => tasks[t].newPathWithExtension \notin DOMAIN fs

(***************************************************************************)
(* processImage called a second time, once the first call has finished, on *)
(* the same path or on the path the first call returned.                   *)
(***************************************************************************)
\* 7x1: two black columns, two green, two black, one green.  The crop of
\* this image has a border again.
RecroppableImage ==
    [width |-> 7, height |-> 1,
     rows |-> <<[n |-> 1,
                 row |-> <<[n |-> 2, px |-> Black], [n |-> 2, px |-> Green],
                           [n |-> 2, px |-> Black], [n |-> 1, px |-> Green]>>]>>]

CallProcessImageAgain(imageUri) ==
    /\ Len(tasks) = 1
    /\ tasks[1].kind = "single"
    /\ tasks[1].pc = "done"
    /\ imageUri \in {tasks[1].imageUri, tasks[1].result}
    /\ tasks' = Append(tasks, ProcessImageEntry(NewTask("single", <<>>, FALSE), imageUri))
    /\ UNCHANGED <<fs, gallery, now, cropSeq>>

\* The source file is at a path with the file:// scheme and an extension,
\* or at a bare path without extension.
InitTwice ==
    /\ \E uri \in {UriA, UriB} :
          \/ fs = (FsPath(uri) :> ImageFile(RecroppableImage))
          \/ \E w \in 1..MaxWidth, h \in 1..MaxHeight :
                \E detailed \in 1..h, pixelAt \in [1..w -> Palette] :
                   \E other \in [(1..h) \ {detailed} -> OtherRowPalette] :
                      fs = (FsPath(uri) :>
                               ImageFile(SmallImage(w, h, detailed, pixelAt, other)))
    /\ tasks = <<>>
    /\ gallery = <<>>
    /\ now = 0
    /\ cropSeq = 0
    /\ screen = NewScreen

NextTwice ==
    \/ (\E imageUri \in SourceUris : CallProcessImage(imageUri)) /\ UNCHANGED screen
    \/ /\ \E imageUri \in SourceUris \cup {tasks[t].result : t \in DOMAIN tasks} :
             CallProcessImageAgain(imageUri)
       /\ UNCHANGED screen
    \/ (\E t \in DOMAIN tasks : ReadFileResolve(t)) /\ UNCHANGED screen
    \/ (\E t \in DOMAIN tasks : ReadFileReject(t)) /\ UNCHANGED screen
    \/ (\E t \in DOMAIN tasks : CropImageResolve(t)) /\ UNCHANGED screen
    \/ (\E t \in DOMAIN tasks : CropImageReject(t)) /\ UNCHANGED screen
    \/ (\E t \in DOMAIN tasks : MoveFileResolve(t)) /\ UNCHANGED screen
    \/ (\E t \in DOMAIN tasks : MoveFileReject(t)) /\ UNCHANGED screen
    \/ (\E t \in DOMAIN tasks : CopyFileResolve(t)) /\ UNCHANGED screen
    \/ (\E t \in DOMAIN tasks : CopyFileReject(t)) /\ UNCHANGED screen
    \/ (\E t \in DOMAIN tasks : CameraRollSaveResolve(t)) /\ UNCHANGED screen
    \/ (\E t \in DOMAIN tasks : CameraRollSaveReject(t)) /\ UNCHANGED screen
    \/ (\E t \in DOMAIN tasks : UnlinkResolve(t)) /\ UNCHANGED screen
    \/ (\E t \in DOMAIN tasks : UnlinkReject(t)) /\ UNCHANGED screen

SpecTwice == InitTwice /\ [][NextTwice]_vars

(***************************************************************************)
(* C15.                                                                    *)
(***************************************************************************)
\* The scan row of the image has no border: its first and its last column
\* are content.
NoBorder(image) ==
    /\ 0 \in ContentColumns(image)
    /\ (image.width - 1) \in ContentColumns(image)

\* C15: processImage run twice in a row on an image with no border gives
\* the original path, unchanged, both times, and neither run calls the
\* crop operation or writes a file: the source file stays the only file,
\* no crop output exists and the gallery receives nothing.
C15_NoOpOnBorderlessImage ==
    (/\ tasks # <<>>
     /\ HasSourceImage(tasks[1])
     /\ NoBorder(SourceImage(tasks[1])))
        => /\ \A t \in DOMAIN tasks :
                 /\ tasks[t].imageUri = tasks[1].imageUri
                 /\ tasks[t].cropLog = <<>>
                 /\ tasks[t].pc \in {"readFile", "done"}
                 /\ Finished(tasks[t]) =>
                       /\ tasks[t].outcome = "returned"
                       /\ tasks[t].result = tasks[1].imageUri
           /\ DOMAIN fs = {FsPath(tasks[1].imageUri)}
           /\ cropSeq = 0
           /\ gallery = <<>>

\* Both runs on a borderless image wider than two columns have finished,
\* each after detection succeeded.
C15_Witness ==
    /\ Len(tasks) = 2
    /\ \A t \in DOMAIN tasks :
          /\ Finished(tasks[t])
          /\ Detected(tasks[t])
          /\ NoBorder(SourceImage(tasks[t]))
          /\ SourceImage(tasks[t]).width > 2
          /\ tasks[t].failed = "none"
          /\ tasks[t].result = tasks[1].imageUri

(***************************************************************************)
(* C19.                                                                    *)
(***************************************************************************)
\* The first call cropped its image and the second call is on the cropped
\* result.
SecondRunOnCrop ==
    /\ Len(tasks) = 2
    /\ Len(tasks[1].cropLog) = 1
    /\ tasks[1].result # tasks[1].imageUri
    /\ tasks[2].imageUri = tasks[1].result

\* The second run on a cropped result makes no further crop and returns
\* the path it was given.
CropIsStable ==
    SecondRunOnCrop
        => /\ tasks[2].cropLog = <<>>
           /\ Finished(tasks[2]) => tasks[2].result = tasks[2].imageUri

\* The window a crop retains holds every content column of the scan row.
WindowHoldsContent ==
    \A t \in DOMAIN tasks :
        (Detected(tasks[t]) /\ Len(tasks[t].cropLog) = 1)
            => LET b == tasks[t].bounds[1]
               IN ContentColumns(SourceImage(tasks[t])) \subseteq b.x..(b.x + b.width - 1)

\* C19, as stated: for every image that processImage crops, processImage
\* on the cropped result makes no further crop and returns its path
\* unchanged, and the retained window [left, left + width) contains every
\* content column of the scan row.
C19_AsStated == CropIsStable /\ WindowHoldsContent

(***************************************************************************)
(* C16.                                                                    *)
(***************************************************************************)
\* The n-th event of a run of processImageList that processes its items
\* one at a time: for each item in input order its start, its end, and
\* with a progress callback the report of its progress.
SequentialEvent(n, onProgress) ==
    LET per == IF onProgress THEN 3 ELSE 2
        pos == (n - 1) % per
    IN [event |-> IF pos = 0 THEN "start" ELSE IF pos = 1 THEN "end" ELSE "progress",
        item  |-> (n - 1) \div per + 1]

\* The number of entries of events of the kind event.
CountEvents(events, event) ==
    Cardinality({n \in DOMAIN events : events[n].event = event})

\* C16: within one run of processImageList at most one image is being
\* processed at any time: the items start in input order, and the
\* processing of item i + 1 starts only after item i has completed and its
\* progress has been reported.
C16_OneImageAtATime ==
    \A t \in DOMAIN tasks :
        tasks[t].kind = "batch"
            => LET events == tasks[t].events
               IN /\ \A n \in DOMAIN events :
                        events[n] = SequentialEvent(n, tasks[t].onProgress)
                  /\ CountEvents(events, "start") - CountEvents(events, "end") \in {0, 1}
                  /\ tasks[t].pc # "done"
                        => /\ CountEvents(events, "start") = CountEvents(events, "end") + 1
                           /\ tasks[t].imageUri = tasks[t].imageUris[tasks[t].i + 1]
                           /\ Len(tasks[t].calls) = tasks[t].i
                           /\ tasks[t].onProgress => Len(tasks[t].progressLog) = tasks[t].i

\* The second item of a batch with a progress callback is being cropped
\* after the first item was cropped and its progress reported.
C16_Witness ==
    \E t \in DOMAIN tasks :
        /\ tasks[t].kind = "batch"
        /\ tasks[t].onProgress
        /\ Len(tasks[t].imageUris) = 2
        /\ tasks[t].i = 1
        /\ tasks[t].pc = "moveFile"
        /\ tasks[t].calls[1].failed = "none"
        /\ tasks[t].calls[1].result # tasks[t].imageUris[1]
        /\ tasks[t].progressLog = <<[num |-> 1, den |-> 2]>>

(***************************************************************************)
(* Detection as a function of the image: findCropBoundsWithSkia applied to *)
(* two images of one size whose scan rows agree, pixel by pixel, on        *)
(* content against border.                                                 *)
(***************************************************************************)
MaxPairWidth == 3

\* The pixel has a channel of R, G, B above 30; its alpha does not count.
IsContentPixel(px) == px.r > 30 \/ px.g > 30 \/ px.b > 30

\* The image whose row floor(h / 2) has the pixels pixelAt and whose other
\* rows are uniformly other.
ScanRowImage(w, h, pixelAt, other) ==
    SmallImage(w, h, h \div 2 + 1, pixelAt, [y \in 1..h |-> other])

\* findCropBoundsWithSkia(imageUri), applied to a file not yet examined.
DetectBounds(imageUri, pixelsRead) ==
    /\ FsPath(imageUri) \in DOMAIN fs
    /\ \A t \in DOMAIN tasks : tasks[t].imageUri # imageUri
    /\ tasks' = Append(tasks,
                       [NewTask("detect", <<>>, FALSE) EXCEPT
                           !.imageUri = imageUri,
                           !.bounds = FindCropBoundsWithSkia(fs[FsPath(imageUri)],
                                                             pixelsRead),
                           !.pc = "done",
                           !.outcome = "returned"])
    /\ UNCHANGED <<fs, gallery, now, cropSeq>>

InitPair ==
    /\ \E w \in 1..MaxPairWidth, h \in 1..MaxHeight :
          \E pixelAtA \in [1..w -> Palette], pixelAtB \in [1..w -> Palette] :
             \E otherA \in OtherRowPalette, otherB \in OtherRowPalette :
                /\ \A x \in 1..w :
                      IsContentPixel(pixelAtA[x]) <=> IsContentPixel(pixelAtB[x])
                /\ fs = (FsPath(UriA) :> ImageFile(ScanRowImage(w, h, pixelAtA, otherA)))
                        @@ (FsPath(UriB) :> ImageFile(ScanRowImage(w, h, pixelAtB, otherB)))
    /\ tasks = <<>>
    /\ gallery = <<>>
    /\ now = 0
    /\ cropSeq = 0
    /\ screen = NewScreen

NextPair ==
    \/ /\ \E imageUri \in {UriA, UriB}, pixelsRead \in BOOLEAN :
             DetectBounds(imageUri, pixelsRead)
       /\ UNCHANGED screen

SpecPair == InitPair /\ [][NextPair]_vars

(***************************************************************************)
(* C18.                                                                    *)
(***************************************************************************)
\* The two images have one size and their rows floor(height / 2) agree in
\* every column on content against border.
SameClassification(imageA, imageB) ==
    /\ imageA.width = imageB.width
    /\ imageA.height = imageB.height
    /\ ContentColumns(imageA) = ContentColumns(imageB)

\* C18: the bounds detected depend only on the row floor(height / 2) and
\* only on which of its pixels have a channel of R, G, B strictly above 30
\* (30 itself is border, alpha is ignored): two images of equal size that
\* agree on this classification in that row get equal bounds, whatever
\* their pixel values and their other rows.
C18_BoundsDependOnClassification ==
    \A t, u \in DOMAIN tasks :
        (/\ tasks[t].kind = "detect" /\ tasks[u].kind = "detect"
         /\ Detected(tasks[t]) /\ Detected(tasks[u])
         /\ SameClassification(SourceImage(tasks[t]), SourceImage(tasks[u])))
            => tasks[t].bounds = tasks[u].bounds

\* Bounds were detected on two images that differ in the pixel values of
\* the scan row (30 against 0 in a border column, a transparent against an
\* opaque pixel in a content column) and in their other rows.
C18_Witness ==
    /\ Len(tasks) = 2
    /\ Detected(tasks[1]) /\ Detected(tasks[2])
    /\ LET imageA == SourceImage(tasks[1])
           imageB == SourceImage(tasks[2])
       IN /\ SameClassification(imageA, imageB)
          /\ imageA.height = 2
          /\ imageA.width = 3
          /\ PixelOf(imageA, 0, 1) = Black /\ PixelOf(imageB, 0, 1) = Dim
          /\ PixelOf(imageA, 1, 1) = Green /\ PixelOf(imageB, 1, 1) = Blue
          /\ PixelOf(imageA, 0, 0) # PixelOf(imageB, 0, 0)
    /\ tasks[1].bounds = tasks[2].bounds
    /\ tasks[1].bounds[1].x = 1

(***************************************************************************)
(* The Screen component.  React commits the state updates a handler made   *)
(* before the next event is dispatched, so every action ends in the        *)
(* committed state; a handler that awaits keeps the values of the render   *)
(* it was created in (its closure), and so does the onPress callback of an *)
(* alert dialog.  Alert.alert returns at once and the dialog is shown      *)
(* later, so presses already on their way are still dispatched.            *)
(***************************************************************************)
MaxActions == 2

MaxPicks == 1

\* The lists ImagePicker.openPicker resolves with: distinct images.
PickedLists ==
    {l \in UriLists : Len(l) >= 1 /\ \A j, k \in DOMAIN l : j # k => l[j] # l[k]}

\* The frame of a handler that awaits the service: what its closure
\* captured, the call it awaits, and the alerts it raised itself.
NewHandler(kind, index, originalUri, selectedImages, task) ==
    [kind |-> kind, index |-> index, originalUri |-> originalUri,
     selectedImages |-> selectedImages, task |-> task,
     pc |-> "awaiting", alerts |-> <<>>]

\* What handler h does when the call it awaits goes from `before` to
\* `after`: the progress callback of handleAdjustAllImages, and once the
\* call has settled the rest of the try block, the catch and the finally.
HandlerFollows(scr, h, before, after) ==
    LET handler  == scr.handlers[h]
        reported == IF /\ handler.kind = "all"
                       /\ Len(after.progressLog) > Len(before.progressLog)
                    THEN [scr EXCEPT !.progress = after.progressLog[Len(after.progressLog)]]
                    ELSE scr
        failed   == [reported EXCEPT
                        !.handlers[h].alerts =
                            Append(@, IF handler.kind = "single"
                                      THEN "Ocorreu uma falha ao ajustar a imagem."
                                      ELSE "Ocorreu uma falha durante o processamento das imagens.")]
        settled  == IF after.outcome # "returned" THEN failed
                    ELSE IF handler.kind = "all"
                    THEN [reported EXCEPT !.selectedImages = after.processedUris]
                    ELSE IF after.result # handler.originalUri
                    THEN [reported EXCEPT
                             !.selectedImages = [handler.selectedImages EXCEPT
                                                    ![handler.index] = after.result]]
                    ELSE reported
    IN IF handler.pc # "awaiting" \/ after.pc # "done" THEN reported
       ELSE [settled EXCEPT
                !.isAdjustingImages = FALSE,
                !.progress = IF handler.kind = "all" THEN [num |-> 0, den |-> 1] ELSE @,
                !.handlers[h].pc = "done"]

\* The Screen after a step of call t of the service.
ScreenFollows(t) ==
    screen' = IF \E h \in DOMAIN screen.handlers : screen.handlers[h].task = t
              THEN HandlerFollows(screen,
                                  CHOOSE h \in DOMAIN screen.handlers :
                                      screen.handlers[h].task = t,
                                  tasks[t], tasks'[t])
              ELSE screen

\* handleImagePicker, pressed on the button "Carregar Imagens", up to
\* `await requestGalleryPermission()`.
PressLoadImages ==
    /\ ~screen.isAdjustingImages
    /\ screen.picker = "closed"
    /\ screen.picks < MaxPicks
    /\ screen' = [screen EXCEPT !.picker = "permission", !.picks = @ + 1]
    /\ UNCHANGED <<fs, tasks, gallery, now, cropSeq>>

RequestGalleryPermissionResolve(hasPermission) ==
    /\ screen.picker = "permission"
    /\ screen' = IF hasPermission THEN [screen EXCEPT !.picker = "open"]
                 ELSE [screen EXCEPT !.picker = "closed",
                                     !.alerts = Append(@, "Permissao Negada")]
    /\ UNCHANGED <<fs, tasks, gallery, now, cropSeq>>

OpenPickerResolve(imagePaths) ==
    /\ screen.picker = "open"
    /\ screen' = [screen EXCEPT !.picker = "closed", !.selectedImages = imagePaths]
    /\ UNCHANGED <<fs, tasks, gallery, now, cropSeq>>

OpenPickerReject(code) ==
    /\ screen.picker = "open"
    /\ screen' = [screen EXCEPT
                     !.picker = "closed",
                     !.alerts = IF code # "E_PICKER_CANCELLED"
                                THEN Append(@, "Nao foi possivel selecionar as imagens.")
                                ELSE @]
    /\ UNCHANGED <<fs, tasks, gallery, now, cropSeq>>

\* The presses that edit the list by hand: manual crops and removals.
MaxEdits == 1

\* The path ImagePicker.openCropper resolves with when it follows the n-th
\* edit.
ManualCropPath(n) ==
    FileScheme \o CachesDirectoryPath \o <<"/", "m">> \o NumberToString(n)
        \o <<".", "j", "p", "g">>

\* prevImages.map(img => (img === uri ? path : img))
ReplaceUri(images, uri, path) ==
    [k \in DOMAIN images |-> IF images[k] = uri THEN path ELSE images[k]]

\* prev.filter((_, index) => index !== indexToRemove), for the 1-based
\* position indexToRemove.
RemoveAt(images, indexToRemove) ==
    SubSeq(images, 1, indexToRemove - 1)
        \o SubSeq(images, indexToRemove + 1, Len(images))

\* handleImageClick(item), pressed on a rendered item, up to
\* `await ImagePicker.openCropper(...)`.  It tests no flag and the item is
\* never disabled.
PressImage(index) ==
    /\ index \in DOMAIN screen.selectedImages
    /\ screen.cropper = <<>>
    /\ screen.edits < MaxEdits
    /\ screen' = [screen EXCEPT
                     !.cropper = <<[uri |-> screen.selectedImages[index]]>>,
                     !.edits = @ + 1]
    /\ UNCHANGED <<fs, tasks, gallery, now, cropSeq>>

\* The user confirms a crop that drops the first `left` columns: the
\* cropper writes the result to a new file and handleImageClick puts its
\* path in the place of every entry equal to uri.
OpenCropperResolve(left) ==
    /\ screen.cropper # <<>>
    /\ LET uri == screen.cropper[1].uri
       IN /\ FsPath(uri) \in DOMAIN fs
          /\ fs[FsPath(uri)].kind = "image"
          /\ LET source == fs[FsPath(uri)].image
                 path   == ManualCropPath(screen.edits)
             IN /\ left < source.width
                /\ fs' = WriteFile(fs, FsPath(path),
                                   ImageFile(CropPixels(source,
                                       [offset |-> [x |-> left, y |-> 0],
                                        size   |-> [width |-> source.width - left,
                                                    height |-> source.height]])))
                /\ screen' = [screen EXCEPT
                                 !.cropper = <<>>,
                                 !.selectedImages = ReplaceUri(@, uri, path)]
    /\ UNCHANGED <<tasks, gallery, now, cropSeq>>

OpenCropperReject(code) ==
    /\ screen.cropper # <<>>
    /\ screen' = [screen EXCEPT
                     !.cropper = <<>>,
                     !.alerts = IF code # "E_PICKER_CANCELLED"
                                THEN Append(@, "Nao foi possivel recortar a imagem.")
                                ELSE @]
    /\ UNCHANGED <<fs, tasks, gallery, now, cropSeq>>

\* handleRemoveImage(index), pressed on the remove icon of a rendered item.
PressRemove(index) ==
    /\ index \in DOMAIN screen.selectedImages
    /\ ~screen.isAdjustingImages
    /\ screen.edits < MaxEdits
    /\ screen' = [screen EXCEPT !.selectedImages = RemoveAt(@, index),
                                !.edits = @ + 1]
    /\ UNCHANGED <<fs, tasks, gallery, now, cropSeq>>

\* handleAdjustSingleImage(index), pressed on the icon of a rendered item,
\* up to `await ImageProcessingService.processImage(originalUri)`.
PressAdjustSingle(index) ==
    /\ index \in DOMAIN screen.selectedImages
    /\ ~screen.isAdjustingImages
    /\ Len(tasks) + Len(screen.dialogs) < MaxActions
    /\ LET originalUri == screen.selectedImages[index]
       IN /\ tasks' = Append(tasks, ProcessImageEntry(NewTask("single", <<>>, FALSE),
                                                      originalUri))
          /\ screen' = [screen EXCEPT
                           !.isAdjustingImages = TRUE,
                           !.handlers = Append(@, NewHandler("single", index, originalUri,
                                                             screen.selectedImages,
                                                             Len(tasks) + 1))]
    /\ UNCHANGED <<fs, gallery, now, cropSeq>>

\* handleAdjustAllImages, pressed on the button rendered for a non-empty
\* list: it opens the alert dialog "Ajustar Todas as Imagens".
PressAdjustAll ==
    /\ Len(screen.selectedImages) > 0
    /\ ~screen.isAdjustingImages
    /\ Len(tasks) + Len(screen.dialogs) < MaxActions
    /\ screen' = [screen EXCEPT
                     !.dialogs = Append(@, [selectedImages |-> screen.selectedImages])]
    /\ UNCHANGED <<fs, tasks, gallery, now, cropSeq>>

\* The dialogs without dialog d.
CloseDialog(dialogs, d) ==
    SubSeq(dialogs, 1, d - 1) \o SubSeq(dialogs, d + 1, Len(dialogs))

\* "Cancelar" of dialog d.
PressCancel(d) ==
    /\ d \in DOMAIN screen.dialogs
    /\ screen' = [screen EXCEPT !.dialogs = CloseDialog(@, d)]
    /\ UNCHANGED <<fs, tasks, gallery, now, cropSeq>>

\* "Continuar" of dialog d: its onPress callback up to
\* `await ImageProcessingService.processImageList(selectedImages, ...)`.
PressContinue(d) ==
    /\ d \in DOMAIN screen.dialogs
    /\ LET selectedImages == screen.dialogs[d].selectedImages
           started == [screen EXCEPT
                          !.dialogs = CloseDialog(@, d),
                          !.isAdjustingImages = TRUE,
                          !.progress = [num |-> 0, den |-> 1],
                          !.handlers = Append(@, NewHandler("all", 0, <<>>, selectedImages,
                                                            Len(tasks) + 1))]
           call == ProcessImageListEntry(selectedImages, TRUE)
       IN /\ tasks' = Append(tasks, call)
          /\ screen' = HandlerFollows(started, Len(started.handlers),
                                      NewTask("batch", selectedImages, TRUE), call)
    /\ UNCHANGED <<fs, gallery, now, cropSeq>>

NextScreen ==
    \/ PressLoadImages
    \/ \E hasPermission \in BOOLEAN : RequestGalleryPermissionResolve(hasPermission)
    \/ \E imagePaths \in PickedLists : OpenPickerResolve(imagePaths)
    \/ \E code \in {"E_PICKER_CANCELLED", "E_UNKNOWN"} : OpenPickerReject(code)
    \/ \E index \in 1..MaxBatch : PressImage(index)
    \/ \E left \in {0, 1} : OpenCropperResolve(left)
    \/ \E code \in {"E_PICKER_CANCELLED", "E_UNKNOWN"} : OpenCropperReject(code)
    \/ \E index \in 1..MaxBatch : PressRemove(index)
    \/ \E index \in 1..MaxBatch : PressAdjustSingle(index)
    \/ PressAdjustAll
    \/ \E d \in 1..MaxActions : PressCancel(d)
    \/ \E d \in 1..MaxActions : PressContinue(d)
    \/ \E t \in DOMAIN tasks : ReadFileResolve(t) /\ ScreenFollows(t)
    \/ \E t \in DOMAIN tasks : ReadFileReject(t) /\ ScreenFollows(t)
    \/ \E t \in DOMAIN tasks : CropImageResolve(t) /\ ScreenFollows(t)
    \/ \E t \in DOMAIN tasks : CropImageReject(t) /\ ScreenFollows(t)
    \/ \E t \in DOMAIN tasks : MoveFileResolve(t) /\ ScreenFollows(t)
    \/ \E t \in DOMAIN tasks : MoveFileReject(t) /\ ScreenFollows(t)
    \/ \E t \in DOMAIN tasks : CopyFileResolve(t) /\ ScreenFollows(t)
    \/ \E t \in DOMAIN tasks : CopyFileReject(t) /\ ScreenFollows(t)
    \/ \E t \in DOMAIN tasks : CameraRollSaveResolve(t) /\ ScreenFollows(t)
    \/ \E t \in DOMAIN tasks : CameraRollSaveReject(t) /\ ScreenFollows(t)
    \/ \E t \in DOMAIN tasks : UnlinkResolve(t) /\ ScreenFollows(t)
    \/ \E t \in DOMAIN tasks : UnlinkReject(t) /\ ScreenFollows(t)

SpecScreen == InitOneOfEach /\ [][NextScreen]_vars

(***************************************************************************)
(* C14.                                                                    *)
(***************************************************************************)
\* The failure alerts raised during the action of handler h: those of the
\* service call it awaits and its own.
FailureAlerts(h) ==
    tasks[screen.handlers[h].task].alerts \o screen.handlers[h].alerts

\* C14, as stated: during one action the user started (one single-image
\* adjust, or one batch over N images) at most one failure alert is raised
\* in total, not one per image.
C14_AsStated ==
    \A h \in DOMAIN screen.handlers : Len(FailureAlerts(h)) <= 1

(***************************************************************************)
(* C20.                                                                    *)
(***************************************************************************)
\* The adjust actions in flight: the handlers that have set
\* isAdjustingImages and have not reached their finally block.
InFlight == {h \in DOMAIN screen.handlers : screen.handlers[h].pc = "awaiting"}

\* C20, as stated: the busy flag isAdjustingImages gives mutual exclusion
\* of the adjust actions: whatever the user presses and confirms, at most
\* one adjust action is in flight at any time.
C20_AsStated == Cardinality(InFlight) <= 1

(***************************************************************************)
(* C21.                                                                    *)
(***************************************************************************)
\* In this step handler h leaves its await and runs to its finally block.
Completing(h) ==
    /\ screen.handlers[h].pc = "awaiting"
    /\ screen'.handlers[h].pc = "done"

\* What the call of handler h made of entry k of the list the handler
\* started with, as known at the end of this step.
ProcessedEntry(h, k) ==
    LET handler == screen.handlers[h]
    IN IF handler.kind = "all" THEN tasks'[handler.task].processedUris[k]
       ELSE IF k = handler.index THEN tasks'[handler.task].result
       ELSE handler.selectedImages[k]

IsManualCrop(uri) == \E n \in 1..MaxEdits : uri = ManualCropPath(n)

\* While an adjust action is in flight, only the completion of an adjust
\* action changes selectedImages.
ListUntouchedInFlight ==
    (InFlight # {} /\ screen'.selectedImages # screen.selectedImages)
        => \E h \in InFlight : Completing(h)

\* When an adjust action completes, every entry of the list is the entry
\* present when the action started or the result of processing it.
CompletionKeepsEntries ==
    \A h \in InFlight :
        Completing(h)
            => LET started == screen.handlers[h].selectedImages
               IN /\ Len(screen'.selectedImages) = Len(started)
                  /\ \A k \in DOMAIN started :
                        screen'.selectedImages[k] \in {started[k], ProcessedEntry(h, k)}

\* The completion of an adjust action leaves every manual crop result in
\* the list, or replaces it by the result of processing it.
ManualCropKept ==
    \A h \in InFlight :
        Completing(h)
            => \A k \in DOMAIN screen.selectedImages :
                  IsManualCrop(screen.selectedImages[k])
                     => /\ k \in DOMAIN screen'.selectedImages
                        /\ \/ screen'.selectedImages[k] = screen.selectedImages[k]
                           \/ /\ k \in DOMAIN screen.handlers[h].selectedImages
                              /\ screen.handlers[h].selectedImages[k]
                                    = screen.selectedImages[k]
                              /\ screen'.selectedImages[k] = ProcessedEntry(h, k)

\* C21, as stated: no update of the image list is lost around an adjust
\* action: while an adjust action is in flight no other handler (remove,
\* pick, manual crop) changes selectedImages, so when the action completes
\* and writes its result every entry is the entry present at its start or
\* the result of processing that entry, and a manual crop result is never
\* overwritten.
C21_AsStated ==
    [][ListUntouchedInFlight /\ CompletionKeepsEntries /\ ManualCropKept]_vars

====
